---- MODULE Spec2Model ----
(***************************************************************************)
(* Model of charliebarber/sat-routing-2d: the zone-constrained detour      *)
(* search (src/src/satrouting/path_finding.py), the zone locator           *)
(* (zone_utils.py) and the position model (position_utils.py).             *)
(*                                                                         *)
(* Weights are integers.  The target weight shortest_weight * 1.25 is kept *)
(* scaled by 4 (target_weight4 = 5 * shortest_weight), so every comparison *)
(* against it is exact.                                                    *)
(*                                                                         *)
(* nx.shortest_path returns one minimum-weight path; which one it returns  *)
(* among several of equal weight depends on the library's heap and         *)
(* adjacency order.  The model therefore lets every call return any        *)
(* minimum-weight path (MinPaths).                                         *)
(***************************************************************************)
EXTENDS Integers, Sequences, FiniteSets, TLC

\* ---------------------------------------------------------------- constants

SATS_PER_PLANE == 66

\* float('inf'): larger than every path weight of the model
Infinity == 1000000

\* default arguments of find_multiple_paths / find_path_via_spare_zones
source == -1
target == -2

\* ------------------------------------------------------------------- graphs
\* An undirected weighted graph (nx.Graph with the 'length' attribute):
\* nodes is the node set, length maps each edge {u, v} to its weight.

Graph(ns, len) == [nodes |-> ns, length |-> len]

HasEdge(G, u, v) == {u, v} \in DOMAIN G.length

Length(G, u, v) == G.length[{u, v}]

Neighbors(G, u) == {v \in G.nodes : v # u /\ HasEdge(G, u, v)}

\* Graph.remove_edges_from: edges not in the graph are silently ignored
RemoveEdges(G, es) ==
    Graph(G.nodes, [e \in (DOMAIN G.length) \ es |-> G.length[e]])

\* Graph.remove_nodes_from: removes the nodes and their incident edges
RemoveNodes(G, ns) ==
    Graph(G.nodes \ ns,
          [e \in {e \in DOMAIN G.length : e \cap ns = {}} |-> G.length[e]])

\* faulty variant: the working graph is the caller's graph itself (no copy)
SameObject(original, changed) == changed

\* original.copy(): the copy is a new object, so the original still holds
\* what it held when the copy has had nodes or edges removed (changed)
Original(original, changed) == original

\* the value of main's G outside run_routing.main
NoSnapshot == Graph({}, <<>>)

\* ---------------------------------------------------------------- sequences

Range(s) == {s[i] : i \in 1..Len(s)}

RECURSIVE Reverse(_)
Reverse(s) == IF s = <<>> THEN <<>> ELSE Append(Reverse(Tail(s)), Head(s))

\* python s[:-1]
ButLast(s) == SubSeq(s, 1, Len(s) - 1)

\* python s[1:-1]
Interior(s) == {s[i] : i \in 2..(Len(s) - 1)}

IsSimple(s) == \A i, j \in 1..Len(s) : i # j => s[i] # s[j]

\* zip(path, path[1:]) as a set of undirected edges
PathEdges(p) == {{p[i], p[i + 1]} : i \in 1..(Len(p) - 1)}

\* sum(G[u][v]['length'] for u, v in zip(path, path[1:]))
RECURSIVE PathWeightFrom(_, _, _)
PathWeightFrom(G, p, i) ==
    IF i >= Len(p) THEN 0
    ELSE Length(G, p[i], p[i + 1]) + PathWeightFrom(G, p, i + 1)

PathWeight(G, p) == PathWeightFrom(G, p, 1)

\* ----------------------------------------------------------- shortest paths

SetMin(S) == CHOOSE x \in S : \A y \in S : x <= y

\* one round of edge relaxation from the distance map d
RelaxOnce(G, d) ==
    [n \in G.nodes |->
        SetMin({d[n]} \cup {d[m] + Length(G, m, n) :
                             m \in {m \in Neighbors(G, n) : d[m] < Infinity}})]

RECURSIVE RelaxAll(_, _)
RelaxAll(G, d) ==
    LET d2 == RelaxOnce(G, d) IN IF d2 = d THEN d ELSE RelaxAll(G, d2)

\* weighted distance from s to every node of G (Infinity: unreachable)
Distances(G, s) ==
    RelaxAll(G, [n \in G.nodes |-> IF n = s THEN 0 ELSE Infinity])

\* every minimum-weight path from s to v, walked back along tight edges
RECURSIVE PathsBack(_, _, _, _)
PathsBack(G, d, s, v) ==
    IF v = s THEN {<<s>>}
    ELSE UNION {{Append(p, v) : p \in PathsBack(G, d, s, m)} :
                m \in {m \in Neighbors(G, v) :
                         d[m] < Infinity /\ d[m] + Length(G, m, v) = d[v]}}

\* faulty variant: weight='length' is left out, so the path has the fewest hops
MinHopPaths(G, s, t) ==
    LET U == Graph(G.nodes, [e \in DOMAIN G.length |-> 1])
        d == Distances(U, s)
    IN  IF d[t] >= Infinity THEN {} ELSE PathsBack(U, d, s, t)

\* the possible results of nx.shortest_path(G, s, t, weight='length');
\* {} stands for nx.NetworkXNoPath.  Both s and t are nodes of G.
MinPaths(G, s, t) ==
    LET d == Distances(G, s)
    IN  IF d[t] >= Infinity THEN {} ELSE PathsBack(G, d, s, t)

\* the weight of a minimum-weight path from s to t (Infinity: no path)
Dist(G, s, t) == Distances(G, s)[t]


\* ------------------------------------------------- find_path_via_spare_zones

VARIABLES
    G,                  \* the canonical graph passed by the caller
    nodes_in_zones,     \* zone membership: a sequence of node lists, zone_idx + 1
    pc,                 \* position in find_path_via_spare_zones
    error,              \* the exception leaving the function, "none" if none
    G_copy,             \* the working graph
    shortest_path,      \* baseline path
    shortest_weight,    \* its weight W0
    tried_directions,
    direction,
    best_entry_path,    \* <<>> stands for None
    best_exit_path,
    best_zone_idx,      \* -1 stands for None
    zone_path,
    zone_weight,
    total_weight,
    needed_weight4,     \* 4 * needed_weight
    best_overall_path,
    best_overall_weight,
    result,             \* the returned list of paths
    inserted,           \* history: the nodes spliced in by the current refinement
    seed_path,          \* history: the in-zone segment before refinement
    G_temp,             \* find_multiple_paths: its working graph
    paths,              \* find_multiple_paths: the paths found so far
    lengths,            \* find_multiple_paths: their lengths
    loop_i,             \* find_multiple_paths: the loop index i
    node_order,         \* zone locator: G.nodes() in iteration order
    spare_zones,        \* zone locator: the configured zones (corner ids)
    node_positions,     \* zone locator: the positions dictionary
    prev_zones,         \* history: the zone list of the previous evaluation
    prev_members,       \* history: the membership it produced
    snapshot,           \* run_routing.main: the parsed graph (no nodes outside main)
    best_total_path,    \* satgraph_parser_plotter: best candidate so far, <<>> for None
    best_total_weight,  \* satgraph_parser_plotter: its weight
    entry_count         \* satgraph_parser_plotter: entry nodes the two outer loops have done

pathsVars == <<G_temp, paths, lengths, loop_i>>

searchVars ==
    <<nodes_in_zones, G_copy, shortest_path, shortest_weight,
      tried_directions, direction, best_entry_path, best_exit_path,
      best_zone_idx, zone_path, zone_weight, total_weight, needed_weight4,
      best_overall_path, best_overall_weight, result, inserted, seed_path>>

zoneVars ==
    <<node_order, spare_zones, node_positions, prev_zones, prev_members, snapshot>>

plotterVars == <<best_total_path, best_total_weight, entry_count>>

vars == <<G, pc, error, searchVars, pathsVars, zoneVars, plotterVars>>

\* faulty variant: the 1.25 factor is left out
TargetWeightNoFactor(w) == 4 * w

\* target_weight = shortest_weight * 1.25, scaled by 4
TargetWeight4(w) == 5 * w

\* initial_sat = shortest_path[1]
InitialSat(p) == p[2]

Plane(n) == n \div SATS_PER_PLANE

\* faulty variant: the slices start one node late, so the edge after the initial hop stays
EdgesToRemoveLate(p) ==
    {{p[k], p[k + 1]} : k \in 3..(Len(p) - 1)} \cup {{InitialSat(p), p[1]}}

\* faulty variant: the last link into the target stays (shortest_path[2:-1])
EdgesToRemoveKeepsLast(p) ==
    {{p[i], p[i + 1]} : i \in 2..(Len(p) - 2)} \cup {{InitialSat(p), p[1]}}

\* edges_to_remove = zip(shortest_path[1:-1], shortest_path[2:]) and
\* (initial_sat, source)
EdgesToRemove(p) ==
    {{p[i], p[i + 1]} : i \in 2..(Len(p) - 1)} \cup {{InitialSat(p), p[1]}}

\* faulty variant: a zone node of the current plane is skipped as well
AdmissibleBeyond(dir, plane, zone_node) == dir * (Plane(zone_node) - plane) > 0

\* direction * (zone_plane - plane) < 0 skips the node
Admissible(dir, plane, zone_node) == ~(dir * (Plane(zone_node) - plane) < 0)

\* the (zone_idx, zone_node) pairs in the order of the two nested loops
RECURSIVE ZoneNodesFrom(_, _)
ZoneNodesFrom(zs, k) ==
    IF k > Len(zs) THEN <<>>
    ELSE [j \in 1..Len(zs[k]) |-> [zone_idx |-> k - 1, zone_node |-> zs[k][j]]]
         \o ZoneNodesFrom(zs, k + 1)

\* the pairs the entry loop (plane of initial_sat) or the exit loop (plane of
\* the entry node) hands to nx.shortest_path.  The exit loop's valid_zones
\* filter drops only zones none of whose nodes passes this same test.
Candidates(zs, dir, plane) ==
    SelectSeq(ZoneNodesFrom(zs, 1), LAMBDA c : Admissible(dir, plane, c.zone_node))

\* a candidate absent from the graph makes nx.shortest_path raise NodeNotFound
MissingCandidate(H, cands) ==
    \E k \in 1..Len(cands) : cands[k].zone_node \notin H.nodes

\* faulty variant: weight <= best_weight keeps the last candidate of minimum weight
BestCandidateLast(H, from, cands) ==
    LET d == Distances(H, from)
        reach == {k \in 1..Len(cands) : d[cands[k].zone_node] < Infinity}
    IN  IF reach = {} THEN 0
        ELSE CHOOSE k \in reach :
                \A j \in reach :
                    \/ d[cands[k].zone_node] < d[cands[j].zone_node]
                    \/ d[cands[k].zone_node] = d[cands[j].zone_node] /\ k >= j

\* weight < best_weight keeps the first candidate of minimum weight;
\* 0 when no candidate is reachable from `from`
BestCandidate(H, from, cands) ==
    LET d == Distances(H, from)
        reach == {k \in 1..Len(cands) : d[cands[k].zone_node] < Infinity}
    IN  IF reach = {} THEN 0
        ELSE CHOOSE k \in reach :
                \A j \in reach :
                    \/ d[cands[k].zone_node] < d[cands[j].zone_node]
                    \/ d[cands[k].zone_node] = d[cands[j].zone_node] /\ k <= j

\* faulty variant: the entry path is cut at the wrong end (best_entry_path[1:])
CompletePathCutsHead(src, entry, zp, exit) ==
    <<src>> \o Tail(entry) \o zp \o Reverse(ButLast(exit))

\* complete_path = [source] + best_entry_path[:-1] + zone_path
\*                 + best_exit_path[:-1][::-1]
CompletePath(src, entry, zp, exit) ==
    <<src>> \o ButLast(entry) \o zp \o Reverse(ButLast(exit))

Last(s) == s[Len(s)]

\* ------------------------------------------------------- refinement trials

\* available_nodes = [n for n in nodes_in_zones[best_zone_idx] if n not in zone_path]
AvailableNodes(zs, idx, zp) ==
    SelectSeq(zs[idx + 1], LAMBDA n : n \notin Range(zp))

\* for node in available_nodes: for i in range(1, len(zone_path)):
\* trial (node, i) replaces the hop zp[i] -> zp[i + 1] (1-based)
Trials(avail, zp) ==
    [t \in 1..(Len(avail) * (Len(zp) - 1)) |->
        [node |-> avail[((t - 1) \div (Len(zp) - 1)) + 1],
         i    |-> ((t - 1) % (Len(zp) - 1)) + 1]]

\* H = G_copy.copy(); H.remove_nodes_from(set(zone_path) - {zp[i-1], zp[i]})
TrialGraph(Gc, zp, i) == RemoveNodes(Gc, Range(zp) \ {zp[i], zp[i + 1]})

\* the (path_to, path_from) pairs the two nx.shortest_path calls can return;
\* {} when either raises NetworkXNoPath
TrialPaths(Gc, zp, tr) ==
    LET H == TrialGraph(Gc, zp, tr.i)
    IN  MinPaths(H, zp[tr.i], tr.node) \X MinPaths(H, tr.node, zp[tr.i + 1])

\* all_nodes = set(path_to[1:-1] + path_from[1:-1]); all_nodes & set(zone_path)
Revisits(zp, path_to, path_from) ==
    (Interior(path_to) \cup Interior(path_from)) \cap Range(zp) # {}

\* faulty variant: the weight of the replaced hop is not taken off
WeightIncreaseWhole(Gc, zp, i, path_to, path_from) ==
    PathWeight(Gc, path_to) + PathWeight(Gc, path_from)

\* weight_increase = segment_weight - original_weight
WeightIncrease(Gc, zp, i, path_to, path_from) ==
    PathWeight(Gc, path_to) + PathWeight(Gc, path_from)
        - Length(Gc, zp[i], zp[i + 1])

\* faulty variant: weight_increase >= 0
ImprovesOrEqual(weight_increase, best_insertion_weight) ==
    weight_increase >= 0 /\ weight_increase < best_insertion_weight

\* faulty variant: weight_increase <= best_insertion_weight, the last of
\* several equal increases is kept
ImprovesOrTies(weight_increase, best_insertion_weight) ==
    weight_increase > 0 /\ weight_increase <= best_insertion_weight

\* if weight_increase > 0 and weight_increase < best_insertion_weight
Improves(weight_increase, best_insertion_weight) ==
    weight_increase > 0 /\ weight_increase < best_insertion_weight

\* faulty variant: path_to[:-1] + path_from[1:] drops the inserted node
SpliceDropsNode(zp, i, path_to, path_from) ==
    SubSeq(zp, 1, i - 1) \o ButLast(path_to) \o Tail(path_from)
        \o SubSeq(zp, i + 2, Len(zp))

\* faulty variant: zone_path[:i] keeps the left neighbour a second time
SpliceRepeatsLeft(zp, i, path_to, path_from) ==
    SubSeq(zp, 1, i) \o path_to \o Tail(path_from) \o SubSeq(zp, i + 2, Len(zp))

\* zone_path[:i-1] + path_to + path_from[1:] + zone_path[i+1:]
Splice(zp, i, path_to, path_from) ==
    SubSeq(zp, 1, i - 1) \o path_to \o Tail(path_from) \o SubSeq(zp, i + 2, Len(zp))

\* What one pass of the two trial loops can leave in best_insertion.  Each
\* trial is summarised by the pairs it can return (pairs), its weight
\* increase (the same for every pair: both paths have minimum weight), the
\* pairs passing the revisit check (ok) and whether it can be skipped (skip).
TrialTable(Gc, zp, trials) ==
    [t \in 1..Len(trials) |->
        LET pairs == TrialPaths(Gc, zp, trials[t])
            inc   == IF pairs = {} THEN 0
                     ELSE LET c == CHOOSE c \in pairs : TRUE
                          IN  WeightIncrease(Gc, zp, trials[t].i, c[1], c[2])
            ok    == {c \in pairs : ~Revisits(zp, c[1], c[2])}
        IN  [inc |-> inc, ok |-> ok, skip |-> ok # pairs \/ pairs = {}]]

\* trial t ends as best_insertion: it improves on infinity, no earlier trial
\* that is kept blocks it, and no later trial that is kept improves on it
CanWin(tab, t) ==
    /\ tab[t].ok # {}
    /\ Improves(tab[t].inc, Infinity)
    /\ \A u \in 1..Len(tab) :
          \/ u = t
          \/ tab[u].skip
          \/ IF u < t THEN Improves(tab[t].inc, tab[u].inc)
                      ELSE ~Improves(tab[u].inc, tab[t].inc)
          \/ ~Improves(tab[u].inc, Infinity)

\* best_insertion stays None: every trial is skipped or does not improve
CanLose(tab) ==
    \A u \in 1..Len(tab) : tab[u].skip \/ ~Improves(tab[u].inc, Infinity)

\* ------------------------------------------------------------------ actions

\* lines 34-54: baseline path, target weight, working graph
Baseline ==
    /\ pc = "start"
    /\ source \in G.nodes /\ target \in G.nodes
    /\ \E p \in MinPaths(G, source, target) :
          /\ shortest_path' = p
          /\ shortest_weight' = PathWeight(G, p)
          /\ G_copy' = RemoveEdges(G, EdgesToRemove(p))
    /\ G' = Original(G, G_copy')
    /\ tried_directions' = {}
    /\ best_overall_path' = <<>>
    /\ best_overall_weight' = Infinity
    /\ pc' = "loop"
    /\ UNCHANGED <<nodes_in_zones, error, direction, best_entry_path,
                   best_exit_path, best_zone_idx, zone_path, zone_weight,
                   total_weight, needed_weight4, result, inserted, seed_path, pathsVars, zoneVars, plotterVars>>

\* faulty variant: the failure of line 38 is caught and an empty list returned
BaselineCaught ==
    /\ pc = "start"
    /\ IF source \in G.nodes /\ target \in G.nodes
       THEN MinPaths(G, source, target) = {}
       ELSE TRUE
    /\ pc' = "done"
    /\ UNCHANGED <<G, error, searchVars, pathsVars, zoneVars, plotterVars>>

\* line 38 raises: NodeNotFound (an endpoint is no node of G) or
\* NetworkXNoPath (source and target are disconnected); nothing catches it
BaselineRaises ==
    /\ pc = "start"
    /\ \/ /\ ~(source \in G.nodes /\ target \in G.nodes)
          /\ error' = "NodeNotFound"
       \/ /\ source \in G.nodes /\ target \in G.nodes
          /\ MinPaths(G, source, target) = {}
          /\ error' = "NetworkXNoPath"
    /\ pc' = "raised"
    /\ UNCHANGED <<G, nodes_in_zones, G_copy, shortest_path, shortest_weight,
                   tried_directions, direction, best_entry_path, best_exit_path,
                   best_zone_idx, zone_path, zone_weight, total_weight,
                   needed_weight4, best_overall_path, best_overall_weight,
                   result, inserted, seed_path, pathsVars, zoneVars, plotterVars>>

\* while len(tried_directions) < 2 and not best_overall_path
LoopGuard == Cardinality(tried_directions) < 2 /\ best_overall_path = <<>>

\* direction = 1 if 1 not in tried_directions else -1
NextDirection == IF 1 \notin tried_directions THEN 1 ELSE -1

EntryCandidates == Candidates(nodes_in_zones, NextDirection, Plane(InitialSat(shortest_path)))

ExitCandidates(entry_node) == Candidates(nodes_in_zones, NextDirection, Plane(entry_node))

BestEntry == BestCandidate(G_copy, InitialSat(shortest_path), EntryCandidates)

BestExit(entry_node) == BestCandidate(G_copy, target, ExitCandidates(entry_node))

\* one pass of the while body that ends in `continue` or falls through the
\* `if best_entry_path and best_exit_path` without a candidate
DirectionFails ==
    /\ pc = "loop" /\ LoopGuard
    /\ ~MissingCandidate(G_copy, EntryCandidates)
    /\ \/ /\ BestEntry = 0                       \* line 87: no entry path
          /\ best_entry_path' = <<>>
          /\ best_zone_idx' = -1
          /\ UNCHANGED <<best_exit_path, needed_weight4>>
       \/ /\ BestEntry # 0
          /\ LET e == EntryCandidates[BestEntry]
             IN  /\ \E ep \in MinPaths(G_copy, InitialSat(shortest_path), e.zone_node) :
                       best_entry_path' = ep
                 /\ \/ /\ BestExit(e.zone_node) = 0      \* line 125 false
                       /\ best_exit_path' = <<>>
                       /\ best_zone_idx' = e.zone_idx
                       /\ UNCHANGED needed_weight4
                    \/ /\ BestExit(e.zone_node) # 0      \* line 204: no zone path
                       /\ LET x == ExitCandidates(e.zone_node)[BestExit(e.zone_node)]
                              \* line 128: rf_weight + entry weight + exit weight
                              current_weight ==
                                  Length(G, source, InitialSat(shortest_path))
                                  + Dist(G_copy, InitialSat(shortest_path), e.zone_node)
                                  + Dist(G_copy, target, x.zone_node)
                              needed4 ==
                                  TargetWeight4(shortest_weight) - 4 * current_weight
                          IN  /\ MinPaths(G_copy, e.zone_node, x.zone_node) = {}
                              /\ \E xp \in MinPaths(G_copy, target, x.zone_node) :
                                    best_exit_path' = xp
                              /\ best_zone_idx' = x.zone_idx
                              \* line 131: needed_weight = max(0, target_weight - current_weight)
                              /\ needed_weight4' = IF needed4 > 0 THEN needed4 ELSE 0
    /\ direction' = NextDirection
    /\ tried_directions' = tried_directions \cup {NextDirection}
    /\ pc' = "loop"
    /\ UNCHANGED <<G, nodes_in_zones, error, G_copy, shortest_path,
                   shortest_weight, zone_path, zone_weight, total_weight,
                   best_overall_path, best_overall_weight,
                   result, inserted, seed_path, pathsVars, zoneVars, plotterVars>>

\* a zone node handed to nx.shortest_path is no node of the working graph:
\* NodeNotFound leaves the function (only NetworkXNoPath is caught).  The
\* exit loop's candidates are among the entry loop's (the entry node's plane
\* lies on the admissible side of initial_sat's), so the entry loop raises first.
DirectionRaises ==
    /\ pc = "loop" /\ LoopGuard
    /\ MissingCandidate(G_copy, EntryCandidates)
    /\ direction' = NextDirection
    /\ tried_directions' = tried_directions \cup {NextDirection}
    /\ error' = "NodeNotFound"
    /\ pc' = "raised"
    /\ UNCHANGED <<G, nodes_in_zones, G_copy, shortest_path, shortest_weight,
                   best_entry_path, best_exit_path, best_zone_idx, zone_path,
                   zone_weight, total_weight, needed_weight4,
                   best_overall_path, best_overall_weight, result, inserted, seed_path, pathsVars, zoneVars, plotterVars>>

\* lines 56-143: entry path, exit path and in-zone segment are all found
DirectionSeeds ==
    /\ pc = "loop" /\ LoopGuard
    /\ ~MissingCandidate(G_copy, EntryCandidates)
    /\ BestEntry # 0
    /\ LET e == EntryCandidates[BestEntry]
       IN  /\ BestExit(e.zone_node) # 0
           /\ LET x == ExitCandidates(e.zone_node)[BestExit(e.zone_node)]
              IN  \E ep \in MinPaths(G_copy, InitialSat(shortest_path), e.zone_node),
                     xp \in MinPaths(G_copy, target, x.zone_node),
                     zp \in MinPaths(G_copy, e.zone_node, x.zone_node) :
                     LET current_weight ==
                             Length(G, source, InitialSat(shortest_path))
                             + PathWeight(G_copy, ep) + PathWeight(G_copy, xp)
                     IN  /\ best_entry_path' = ep
                         /\ best_exit_path' = xp
                         /\ best_zone_idx' = x.zone_idx
                         /\ zone_path' = zp
                         /\ zone_weight' = PathWeight(G_copy, zp)
                         /\ total_weight' = current_weight + PathWeight(G_copy, zp)
                         /\ needed_weight4' =
                               TargetWeight4(shortest_weight)
                               - 4 * (current_weight + PathWeight(G_copy, zp))
    /\ direction' = NextDirection
    /\ tried_directions' = tried_directions \cup {NextDirection}
    /\ inserted' = <<>>
    /\ seed_path' = zone_path'
    /\ pc' = "refine"
    /\ UNCHANGED <<G, nodes_in_zones, error, G_copy, shortest_path,
                   shortest_weight, best_overall_path, best_overall_weight,
                   result, pathsVars, zoneVars, plotterVars>>

\* the while loop of lines 145-194, one iteration per step
RefineTrials == Trials(AvailableNodes(nodes_in_zones, best_zone_idx, zone_path), zone_path)

\* an available node that is no node of H reaches nx.shortest_path(H, ...)
RefineMissing ==
    \E k \in 1..Len(RefineTrials) :
        RefineTrials[k].node
            \notin TrialGraph(G_copy, zone_path, RefineTrials[k].i).nodes

\* lines 184-191: the best insertion is spliced into the in-zone segment
RefineInserts ==
    /\ pc = "refine"
    /\ needed_weight4 > 0
    /\ ~RefineMissing
    /\ LET tab == TrialTable(G_copy, zone_path, RefineTrials)
       IN  \E t \in 1..Len(RefineTrials) :
             /\ CanWin(tab, t)
             /\ \E c \in tab[t].ok :
                   /\ zone_path' = Splice(zone_path, RefineTrials[t].i, c[1], c[2])
                   /\ inserted' = Append(inserted, RefineTrials[t].node)
             /\ zone_weight' = zone_weight + tab[t].inc
             /\ total_weight' = total_weight + tab[t].inc
             /\ needed_weight4' = needed_weight4 - 4 * tab[t].inc
    /\ pc' = "refine"
    /\ UNCHANGED <<G, nodes_in_zones, error, G_copy, shortest_path,
                   shortest_weight, tried_directions, direction,
                   best_entry_path, best_exit_path, best_zone_idx,
                   best_overall_path, best_overall_weight, result, seed_path, pathsVars, zoneVars, plotterVars>>

\* the loop ends: needed_weight <= 0, no available node (line 149), or no
\* best insertion (line 193)
RefineEnds ==
    /\ pc = "refine"
    /\ \/ needed_weight4 <= 0
       \/ /\ needed_weight4 > 0
          /\ AvailableNodes(nodes_in_zones, best_zone_idx, zone_path) = <<>>
       \/ /\ needed_weight4 > 0
          /\ AvailableNodes(nodes_in_zones, best_zone_idx, zone_path) # <<>>
          /\ ~RefineMissing
          /\ CanLose(TrialTable(G_copy, zone_path, RefineTrials))
    /\ pc' = "accept"
    /\ UNCHANGED <<G, nodes_in_zones, error, G_copy, shortest_path,
                   shortest_weight, tried_directions, direction,
                   best_entry_path, best_exit_path, best_zone_idx, zone_path,
                   zone_weight, total_weight, needed_weight4,
                   best_overall_path, best_overall_weight, result, inserted, seed_path, pathsVars, zoneVars, plotterVars>>

\* lines 162-163 raise NodeNotFound inside the trial loop
RefineRaises ==
    /\ pc = "refine"
    /\ needed_weight4 > 0
    /\ RefineMissing
    /\ error' = "NodeNotFound"
    /\ pc' = "raised"
    /\ UNCHANGED <<G, nodes_in_zones, G_copy, shortest_path, shortest_weight,
                   tried_directions, direction, best_entry_path, best_exit_path,
                   best_zone_idx, zone_path, zone_weight, total_weight,
                   needed_weight4, best_overall_path, best_overall_weight,
                   result, inserted, seed_path, pathsVars, zoneVars, plotterVars>>

\* if total_weight >= target_weight
MeetsTarget(total, w0) == 4 * total >= TargetWeight4(w0)

\* lines 196-202
Accept ==
    /\ pc = "accept"
    /\ IF MeetsTarget(total_weight, shortest_weight)
          /\ total_weight < best_overall_weight
       THEN /\ best_overall_path' =
                  CompletePath(source, best_entry_path, zone_path, best_exit_path)
            /\ best_overall_weight' = total_weight
       ELSE UNCHANGED <<best_overall_path, best_overall_weight>>
    /\ pc' = "loop"
    /\ UNCHANGED <<G, nodes_in_zones, error, G_copy, shortest_path,
                   shortest_weight, tried_directions, direction,
                   best_entry_path, best_exit_path, best_zone_idx, zone_path,
                   zone_weight, total_weight, needed_weight4, result, inserted, seed_path, pathsVars, zoneVars, plotterVars>>

\* faulty variant: with no detour found the baseline path is handed back
ReturnFallsBack ==
    /\ pc = "loop" /\ ~LoopGuard
    /\ result' = IF best_overall_path # <<>> THEN <<best_overall_path>>
                                             ELSE <<shortest_path>>
    /\ pc' = "done"
    /\ UNCHANGED <<G, nodes_in_zones, error, G_copy, shortest_path,
                   shortest_weight, tried_directions, direction,
                   best_entry_path, best_exit_path, best_zone_idx, zone_path,
                   zone_weight, total_weight, needed_weight4,
                   best_overall_path, best_overall_weight, inserted, seed_path, pathsVars, zoneVars, plotterVars>>

\* lines 207-214
Return ==
    /\ pc = "loop" /\ ~LoopGuard
    /\ result' = IF best_overall_path # <<>> THEN <<best_overall_path>> ELSE <<>>
    /\ pc' = "done"
    /\ UNCHANGED <<G, nodes_in_zones, error, G_copy, shortest_path,
                   shortest_weight, tried_directions, direction,
                   best_entry_path, best_exit_path, best_zone_idx, zone_path,
                   zone_weight, total_weight, needed_weight4,
                   best_overall_path, best_overall_weight, inserted, seed_path, pathsVars, zoneVars, plotterVars>>

\* ------------------------------------------------------ find_multiple_paths

\* faulty variant: the inner nodes of a found path stay in G_temp
PathFoundKeepsNodes ==
    /\ pc = "paths"
    /\ loop_i < 3
    /\ source \in G_temp.nodes /\ target \in G_temp.nodes
    /\ \E path \in MinPaths(G_temp, source, target) :
          /\ paths' = Append(paths, path)
          /\ lengths' = Append(lengths, PathWeight(G_temp, path))
    /\ loop_i' = loop_i + 1
    /\ UNCHANGED <<G, G_temp, pc, error, searchVars, zoneVars, plotterVars>>

\* lines 13-19: one more path is found; its inner nodes leave G_temp unless
\* it is the third
PathFound ==
    /\ pc = "paths"
    /\ loop_i < 3
    /\ source \in G_temp.nodes /\ target \in G_temp.nodes
    /\ \E path \in MinPaths(G_temp, source, target) :
          /\ paths' = Append(paths, path)
          /\ lengths' = Append(lengths, PathWeight(G_temp, path))
          /\ G_temp' = IF loop_i < 2 THEN RemoveNodes(G_temp, Interior(path))
                                ELSE G_temp
    /\ G' = Original(G, G_temp')
    /\ loop_i' = loop_i + 1
    /\ UNCHANGED <<pc, error, searchVars, zoneVars, plotterVars>>

\* the loop is exhausted, or line 21 catches NetworkXNoPath and breaks
PathsReturn ==
    /\ pc = "paths"
    /\ \/ loop_i = 3
       \/ /\ loop_i < 3
          /\ source \in G_temp.nodes /\ target \in G_temp.nodes
          /\ MinPaths(G_temp, source, target) = {}
    /\ pc' = "paths_done"
    /\ UNCHANGED <<G, error, searchVars, pathsVars, zoneVars, plotterVars>>

\* line 13 raises NodeNotFound, which the except clause does not catch
PathsRaises ==
    /\ pc = "paths"
    /\ loop_i < 3
    /\ ~(source \in G_temp.nodes /\ target \in G_temp.nodes)
    /\ error' = "NodeNotFound"
    /\ pc' = "raised"
    /\ UNCHANGED <<G, searchVars, pathsVars, zoneVars, plotterVars>>

\* ------------------------------------------------------------ position model

\* faulty variant: the fold is left out
GetNodePositionUnfolded(node) ==
    <<66 - (node - (66 * (node \div 66))), -(node \div 66)>>

\* faulty variant: the fold is taken for index_in_plane > 33
GetNodePositionFoldsLate(node) ==
    LET plane == node \div 66
        index_in_plane == 66 - (node - (66 * plane))
        x == IF index_in_plane > 33 THEN index_in_plane - 33
                                    ELSE index_in_plane + 33
        y == -plane
    IN  <<x, y>>

\* get_node_position for node >= 0 (a negative node yields None)
GetNodePosition(node) ==
    LET plane == node \div 66
        index_in_plane == 66 - (node - (66 * plane))
        x == IF index_in_plane > 32 THEN index_in_plane - 33
                                    ELSE index_in_plane + 33
        y == -plane
    IN  <<x, y>>

\* the fixed ground-station coordinates (38.5, -5.5) and (25, -6.5), kept as
\* twice their value
GroundPosition(node) ==
    IF node = -1 THEN [x2 |-> 77, y2 |-> -11] ELSE [x2 |-> 50, y2 |-> -13]

\* calculate_node_positions: satellites and the ground stations -1 and -2
\* get an entry, any other negative id gets none
CalculateNodePositions(nodes) ==
    [n \in {n \in nodes : n >= 0 \/ n \in {-1, -2}} |->
        IF n >= 0 THEN GetNodePosition(n) ELSE GroundPosition(n)]

\* ------------------------------------------------------------- zone locator

Min2(a, b) == IF a <= b THEN a ELSE b

Max2(a, b) == IF a >= b THEN a ELSE b

\* faulty variant: no wrapped case
InXRangeNoWrap(node_x, tl_pos, tr_pos) ==
    tl_pos[1] <= node_x /\ node_x <= tr_pos[1]

\* lines 41-44: the x test, wrapped when the left bound exceeds the right
InXRange(node_x, tl_pos, tr_pos) ==
    IF tl_pos[1] > tr_pos[1]
    THEN node_x >= tl_pos[1] \/ node_x <= tr_pos[1]
    ELSE tl_pos[1] <= node_x /\ node_x <= tr_pos[1]

\* lines 37-38 and 46: the y band of the top-left and bottom-left corners
InYRange(node_y, tl_pos, bl_pos) ==
    Min2(tl_pos[2], bl_pos[2]) <= node_y /\ node_y <= Max2(tl_pos[2], bl_pos[2])

\* line 46, for zone = (top_left, top_right, bottom_left, bottom_right)
InZone(node_pos, zone, positions) ==
    /\ InXRange(node_pos[1], positions[zone[1]], positions[zone[2]])
    /\ InYRange(node_pos[2], positions[zone[1]], positions[zone[3]])

\* lines 18-23: ground stations and nodes without a position are skipped
Located(node, positions) == node >= 0 /\ node \in DOMAIN positions

\* lines 32-34 raise KeyError when a corner has no position and some node
\* gets as far as the zone loop
CornerMissing(order, zones, positions) ==
    /\ \E k \in 1..Len(order) : Located(order[k], positions)
    /\ \E z \in 1..Len(zones), c \in 1..3 : zones[z][c] \notin DOMAIN positions

\* faulty variant: a node is put in the first zone that holds it and in no other
FindNodesFirstZoneOnly(order, zones, positions) ==
    [z \in 1..Len(zones) |->
        SelectSeq(order, LAMBDA n : /\ Located(n, positions)
                                    /\ InZone(positions[n], zones[z], positions)
                                    /\ \A y \in 1..(z - 1) :
                                          ~InZone(positions[n], zones[y], positions))]

\* find_nodes_in_spare_zones: per zone, the member nodes in G.nodes() order
FindNodesInSpareZones(order, zones, positions) ==
    [z \in 1..Len(zones) |->
        SelectSeq(order, LAMBDA n : /\ Located(n, positions)
                                    /\ InZone(positions[n], zones[z], positions))]

\* Inputs of the zone locator: the two ground stations and the satellites of
\* planes 0 and 1 whose projected x lies in LocatorXs; a zone is given by four corner satellites, its top
\* corners in one plane and its bottom corners in one plane, with x-bounds
\* drawn from ZoneXs (wrapped when left > right).  As in config.SPARE_ZONES
\* the bottom corners may sit one satellite further along than the top ones.
MaxZones == 2

LocatorXs == (0..6) \cup {30} \cup (59..65)

LocatorNodes ==
    <<-1, -2>> \o SelectSeq([k \in 1..(2 * SATS_PER_PLANE) |-> k - 1],
                            LAMBDA n : GetNodePosition(n)[1] \in LocatorXs)

\* the satellite of a plane at projected x (the inverse of get_node_position)
NodeAt(x, plane) ==
    66 * plane + (66 - (IF x <= 33 THEN x + 33 ELSE x - 33))

Sheared(xl, xr, ptop, pbot, shift) ==
    <<NodeAt(xl, ptop), NodeAt(xr, ptop),
      NodeAt(xl + shift, pbot), NodeAt(xr + shift, pbot)>>

Rect(xl, xr, ptop, pbot) == Sheared(xl, xr, ptop, pbot, 0)

ZoneXs == {<<5, 60>>, <<60, 5>>, <<5, 5>>}

ZonePlanes == {0, 1}

ZoneShifts == {0, 1}

ZoneChoices ==
    {Sheared(xs[1], xs[2], ptop, pbot, shift) :
        xs \in ZoneXs, ptop \in ZonePlanes, pbot \in ZonePlanes,
        shift \in ZoneShifts}

ZoneLists == UNION {[1..n -> ZoneChoices] : n \in 0..MaxZones}

\* satellites whose entry may be absent from the positions dictionary
DroppedNodes == {NodeAt(30, 0), NodeAt(60, 1)}

\* run_routing.py line 26
CalcPositions ==
    /\ pc = "positions"
    /\ \E drop \in {{}} \cup {{n} : n \in DroppedNodes} :
          node_positions' =
              [n \in (DOMAIN CalculateNodePositions(Range(node_order))) \ drop
                 |-> CalculateNodePositions(Range(node_order))[n]]
    /\ pc' = "zones"
    /\ UNCHANGED <<G, error, searchVars, pathsVars, node_order, spare_zones,
                   prev_zones, prev_members, snapshot, plotterVars>>

\* run_routing.py line 29
Locate ==
    /\ pc = "zones"
    /\ ~CornerMissing(node_order, spare_zones, node_positions)
    /\ nodes_in_zones' = FindNodesInSpareZones(node_order, spare_zones, node_positions)
    /\ pc' = "located"
    /\ UNCHANGED <<G, error, G_copy, shortest_path, shortest_weight,
                   tried_directions, direction, best_entry_path, best_exit_path,
                   best_zone_idx, zone_path, zone_weight, total_weight,
                   needed_weight4, best_overall_path, best_overall_weight,
                   result, inserted, seed_path, pathsVars, zoneVars, plotterVars>>

LocateRaises ==
    /\ pc = "zones"
    /\ CornerMissing(node_order, spare_zones, node_positions) = TRUE
    /\ error' = "KeyError"
    /\ pc' = "raised"
    /\ UNCHANGED <<G, searchVars, pathsVars, zoneVars, plotterVars>>

\* the zone list in another order, with one zone removed, or with one added
Rearranged(zones) ==
    ({[k \in 1..Len(zones) |-> zones[f[k]]] : f \in Permutations(1..Len(zones))}
        \ {zones})
    \cup {SubSeq(zones, 1, k - 1) \o SubSeq(zones, k + 1, Len(zones)) :
             k \in 1..Len(zones)}
    \cup IF Len(zones) >= MaxZones THEN {}
         ELSE {SubSeq(zones, 1, k) \o <<z>> \o SubSeq(zones, k + 1, Len(zones)) :
                  z \in ZoneChoices, k \in 0..Len(zones)}

\* the zone configuration changes and membership is evaluated again
Reconfigure ==
    /\ pc = "located"
    /\ prev_zones = <<>>
    /\ prev_zones' = spare_zones
    /\ prev_members' = nodes_in_zones
    /\ spare_zones' \in Rearranged(spare_zones)
    /\ pc' = "zones"
    /\ UNCHANGED <<G, error, searchVars, pathsVars, node_order, node_positions,
                   snapshot, plotterVars>>

\* ---------------------------------------------------------- run_routing.main

\* config.GROUND_STATIONS
GROUND_STATIONS == {-1, -2}

\* config.SPARE_ZONES
SPARE_ZONES == << <<269, 266, 334, 331>>, <<264, 326, 395, 391>> >>

\* graph_utils.py line 33: the node lies outside the display window
OutsideDisplay(pos) == pos[1] < 26 \/ pos[1] > 40 \/ pos[2] < -8 \/ pos[2] > -4

\* create_subgraph line 31 raises KeyError: a node that is no ground station
\* has no position
SubgraphMissing(Gr, positions, ground_stations) ==
    \E n \in Gr.nodes \ ground_stations : n \notin DOMAIN positions

\* create_subgraph: a copy of G without the nodes outside the display window
CreateSubgraph(Gr, positions, ground_stations) ==
    RemoveNodes(Gr, {n \in Gr.nodes \ ground_stations : OutsideDisplay(positions[n])})

\* run_routing.py lines 26-36: positions, zone membership, subgraph; the
\* subgraph is the graph handed to both searches
MainPrepare ==
    /\ pc = "main"
    /\ LET positions == CalculateNodePositions(snapshot.nodes)
       IN  /\ ~CornerMissing(node_order, spare_zones, positions)
           /\ ~SubgraphMissing(snapshot, positions, GROUND_STATIONS)
           /\ node_positions' = positions
           /\ nodes_in_zones' = FindNodesInSpareZones(node_order, spare_zones, positions)
           /\ G' = CreateSubgraph(snapshot, positions, GROUND_STATIONS)
    /\ snapshot' = Original(snapshot, G')
    /\ G_temp' = G'
    /\ pc' = "paths"
    /\ UNCHANGED <<error, G_copy, shortest_path, shortest_weight,
                   tried_directions, direction, best_entry_path, best_exit_path,
                   best_zone_idx, zone_path, zone_weight, total_weight,
                   needed_weight4, best_overall_path, best_overall_weight,
                   result, inserted, seed_path, paths, lengths, loop_i,
                   node_order, spare_zones, prev_zones, prev_members,
                   plotterVars>>

\* line 29 or line 36 raises KeyError; main does not catch it
MainPrepareRaises ==
    /\ pc = "main"
    /\ LET positions == CalculateNodePositions(snapshot.nodes)
       IN  \/ CornerMissing(node_order, spare_zones, positions) = TRUE
           \/ SubgraphMissing(snapshot, positions, GROUND_STATIONS) = TRUE
    /\ error' = "KeyError"
    /\ pc' = "raised"
    /\ UNCHANGED <<G, searchVars, pathsVars, zoneVars, plotterVars>>

\* the call came from main
InMain == snapshot # NoSnapshot

\* lines 40-47: no baseline path, main returns before the detour search
MainEnds ==
    /\ pc = "paths_done" /\ InMain
    /\ paths = <<>>
    /\ pc' = "main_done"
    /\ UNCHANGED <<G, error, searchVars, pathsVars, zoneVars, plotterVars>>

\* line 50: main calls find_path_via_spare_zones(subgraph, positions, nodes_in_zones)
MainSearches ==
    /\ pc = "paths_done" /\ InMain
    /\ paths # <<>>
    /\ pc' = "start"
    /\ UNCHANGED <<G, error, searchVars, pathsVars, zoneVars, plotterVars>>

\* ------------------------------------------------------------------- inputs

\* edge weights range over 1..MaxWeight; the direct downlink from the first
\* satellite, which the baseline competes with, over 1..MaxWeight + 2
MaxWeight == 2

\* Two ground stations and four satellites, two in plane 0 (0, 1) and two in
\* plane 1 (66, 67).  The source's link to 66 is always present, with the lightest or
\* the heaviest weight; every other
\* link of the template is absent or present with any weight.
TemplateNodes == {source, target, 0, 1, 66, 67}

GroundLink == {source, 66}

OptionalLinks == <<{66, target}, {66, 67}, {67, target}, {66, 0}, {0, 67}, {0, 1}>>

LinkIndex(e) == CHOOSE k \in 1..Len(OptionalLinks) : OptionalLinks[k] = e

\* the template graph with ground weight g and optional weights ws (0: absent)
TemplateGraph(g, ws) ==
    Graph(TemplateNodes,
          [e \in {GroundLink} \cup {OptionalLinks[k] : k \in {k \in 1..Len(OptionalLinks) : ws[k] > 0}}
             |-> IF e = GroundLink THEN g ELSE ws[LinkIndex(e)]])

TemplateGraphs ==
    {TemplateGraph(g, <<d>> \o ws) :
        g \in {1, MaxWeight}, d \in 0..(MaxWeight + 2),
        ws \in [1..(Len(OptionalLinks) - 1) -> 0..MaxWeight]}

\* Zone membership maps offered with every template graph.  Node 2 is a zone
\* member that is no node of the searched graph (membership is computed on
\* the full graph, the search runs on the display-bounded subgraph).
ZoneMaps ==
    { << <<0>> >>,
      << <<66, 67, 1>> >>,
      << <<67, 0>>, <<66, 1>> >>,
      << <<66, 67, 2>> >>,
      << <<1, 0, 67>> >>,
      << <<>>, <<>> >> }

\* The scenario of the specification's section 8: two rings of four
\* satellites, ring links of weight 1, cross links i - (i + 4) of weight 2,
\* ground station -1 on node 0 and ground station -2 on node 5 (weight 1).
ScenarioRing == {{0, 1}, {1, 2}, {2, 3}, {3, 0}, {4, 5}, {5, 6}, {6, 7}, {7, 4}}

ScenarioCross == {{0, 4}, {1, 5}, {2, 6}, {3, 7}}

ScenarioGround == {{source, 0}, {target, 5}}

ScenarioGraph ==
    Graph({source, target} \cup 0..7,
          [e \in ScenarioRing \cup ScenarioCross \cup ScenarioGround
             |-> IF e \in ScenarioCross THEN 2 ELSE 1])

ScenarioZones == << <<2, 3, 6, 7>> >>

\* a snapshot that holds no node for the target ground station
NoTargetGraph == RemoveNodes(ScenarioGraph, {target})

\* Snapshots with two branches between satellites 66 and 67, one through
\* satellite 0 (weights 1 and 2) and one through satellite 1 (weights a and
\* b), beside the direct link: both satellites are candidates for insertion.
BranchGraph(a, b) ==
    Graph(TemplateNodes,
          ({source, 66} :> 1) @@ ({66, target} :> 4) @@ ({66, 67} :> 2)
          @@ ({67, target} :> 2) @@ ({66, 0} :> 1) @@ ({0, 67} :> 2)
          @@ ({66, 1} :> a) @@ ({1, 67} :> b))

BranchGraphs == {BranchGraph(a, b) : a, b \in 1..MaxWeight}

BranchZones == {<< <<66, 67, 1, 0>> >>, << <<66, 67, 0, 1>> >>}

\* Snapshots in which the target is reached through satellite 67 only once
\* the baseline is excluded, and 67 is itself a zone member next to the
\* zone members 0 and 1 (the link 1 - 67 has weight a).
ExitGraph(a) ==
    Graph(TemplateNodes,
          ({source, 66} :> 1) @@ ({66, target} :> 8) @@ ({66, 0} :> 1)
          @@ ({0, 1} :> 2) @@ ({0, 67} :> 2) @@ ({1, 67} :> a)
          @@ ({67, target} :> 6))

ExitGraphs == {ExitGraph(a) : a \in 1..MaxWeight}

ExitZones == {<< <<0, 1, 67>> >>}

SearchInputs ==
    (TemplateGraphs \X ZoneMaps)
        \cup (BranchGraphs \X BranchZones)
        \cup (ExitGraphs \X ExitZones)
        \cup {<<ScenarioGraph, ScenarioZones>>, <<NoTargetGraph, ScenarioZones>>}

\* Inputs of find_multiple_paths: the same six nodes, the source and the
\* target with up to three links each, every link absent or present with any
\* weight.
PathLinks ==
    <<{source, 0}, {source, 1}, {source, 66}, {0, target}, {1, target},
      {66, target}, {0, 66}>>

PathGraph(ws) ==
    Graph(TemplateNodes,
          [e \in {PathLinks[k] : k \in {k \in 1..Len(PathLinks) : ws[k] > 0}}
             |-> ws[CHOOSE k \in 1..Len(PathLinks) : PathLinks[k] = e]])

\* a snapshot in which the two ground stations are linked directly
DirectGraph ==
    Graph(TemplateNodes,
          ({source, target} :> 1) @@ ({source, 0} :> 1) @@ ({0, target} :> 1))

PathInputs ==
    {PathGraph(ws) : ws \in [1..Len(PathLinks) -> 0..MaxWeight]}
        \cup {ScenarioGraph, NoTargetGraph, DirectGraph}

\* Snapshots for run_routing.main.  Besides the ground stations and the zone
\* corners that config.SPARE_ZONES reads, a snapshot holds satellite 329
\* (plane 4, inside the second zone) and satellite 263 (plane 3, outside the
\* display window); 264 is a corner of the second zone.
MainCorners == {269, 266, 334, 264, 326, 395}

MainNodes == GROUND_STATIONS \cup MainCorners \cup {263, 329}

MainLinks == <<{264, target}, {264, 329}, {329, target}, {source, 264}>>

MainOutsideLinks == <<{source, 263}, {263, target}>>

MainGraph(ns, ws, os) ==
    Graph(ns,
          [e \in {MainLinks[k] : k \in {k \in 1..Len(MainLinks) : ws[k] > 0}}
                 \cup {MainOutsideLinks[k] : k \in {k \in 1..2 : os[k] > 0}}
             |-> IF e \in Range(MainOutsideLinks) THEN 1
                 ELSE ws[CHOOSE k \in 1..Len(MainLinks) : MainLinks[k] = e]])

MainGraphs ==
    {MainGraph(MainNodes, ws, os) : ws \in [1..Len(MainLinks) -> 0..MaxWeight],
                                    os \in [1..2 -> 0..1]}

\* the nodes of S in ascending order
RECURSIVE Ascending(_)
Ascending(S) ==
    IF S = {} THEN <<>>
    ELSE <<SetMin(S)>> \o Ascending(S \ {SetMin(S)})

\* a snapshot without the corner 269, and one with a third negative node
MainBroken ==
    {RemoveNodes(MainGraph(MainNodes, <<1, 1, 1, 1>>, <<0, 0>>), {269}),
     MainGraph(MainNodes \cup {-3}, <<1, 1, 1, 1>>, <<0, 0>>)}

\* ------------------------------------------------------------ specification

\* ------------------- satgraph_parser_plotter.py: find_path_via_spare_zones
\* The closest-to-target variant, called as main calls it (no excluded edges).

Abs(x) == IF x < 0 THEN -x ELSE x

\* target_weight = shortest_weight * 1.5, scaled by 2
PlotterTargetWeight2(w) == 3 * w

\* abs(total_weight - target_weight) < abs(best_total_weight - target_weight)
\* and total_weight >= shortest_weight
Closer(total, best, w0) ==
    /\ Abs(2 * total - PlotterTargetWeight2(w0)) < Abs(2 * best - PlotterTargetWeight2(w0))
    /\ total >= w0

\* the entry nodes in the order of the two outer loops
PlotterEntries == ZoneNodesFrom(nodes_in_zones, 1)

\* sat_to_zone_weight + in_zone_weight + zone_to_dst_weight
PlotterTotal(Gc, init, entry_node, exit_node) ==
    Length(Gc, source, init) + Dist(Gc, init, entry_node)
        + Dist(Gc, entry_node, exit_node) + Dist(Gc, exit_node, target)

\* the inner loop over exit nodes from position k on; best holds the weight
\* of the best candidate so far and the exit node of the last improvement
RECURSIVE ExitLoop(_, _, _, _, _, _)
ExitLoop(Gc, w0, init, entry_node, k, best) ==
    LET zone_nodes == best.zone_nodes
    IN  IF k > Len(zone_nodes) THEN best
        ELSE LET exit_node == zone_nodes[k]
                 total == PlotterTotal(Gc, init, entry_node, exit_node)
             IN  IF /\ exit_node # entry_node
                    /\ Dist(Gc, exit_node, target) < Infinity
                    /\ Dist(Gc, entry_node, exit_node) < Infinity
                    /\ Closer(total, best.weight, w0)
                 THEN ExitLoop(Gc, w0, init, entry_node, k + 1,
                               [best EXCEPT !.weight = total, !.found = TRUE,
                                            !.exit_node = exit_node])
                 ELSE ExitLoop(Gc, w0, init, entry_node, k + 1, best)

\* lines 155-171: working graph, baseline path, target weight
PlotterBaseline ==
    /\ pc = "plot_start"
    /\ source \in G.nodes /\ target \in G.nodes
    /\ G_copy' = RemoveEdges(G, {})
    /\ \E p \in MinPaths(G, source, target) :
          /\ shortest_path' = p
          /\ shortest_weight' = PathWeight(G, p)
    /\ best_total_path' = <<>>
    /\ best_total_weight' = Infinity
    /\ best_zone_idx' = -1
    /\ entry_count' = 0
    /\ pc' = "plot_loop"
    /\ UNCHANGED <<G, nodes_in_zones, error, tried_directions, direction,
                   best_entry_path, best_exit_path, zone_path, zone_weight,
                   total_weight, needed_weight4, best_overall_path,
                   best_overall_weight, result, inserted, seed_path,
                   pathsVars, zoneVars>>

\* lines 166-167: NetworkXNoPath on the baseline returns []
PlotterNoPath ==
    /\ pc = "plot_start"
    /\ source \in G.nodes /\ target \in G.nodes
    /\ MinPaths(G, source, target) = {}
    /\ result' = <<>>
    /\ pc' = "done"
    /\ UNCHANGED <<G, nodes_in_zones, error, G_copy, shortest_path,
                   shortest_weight, tried_directions, direction,
                   best_entry_path, best_exit_path, best_zone_idx, zone_path,
                   zone_weight, total_weight, needed_weight4,
                   best_overall_path, best_overall_weight, inserted,
                   seed_path, pathsVars, zoneVars, plotterVars>>

\* line 160 raises NodeNotFound, which line 166 does not catch
PlotterBaselineRaises ==
    /\ pc = "plot_start"
    /\ ~(source \in G.nodes /\ target \in G.nodes)
    /\ error' = "NodeNotFound"
    /\ pc' = "raised"
    /\ UNCHANGED <<G, searchVars, pathsVars, zoneVars, plotterVars>>

\* a zone node handed to nx.shortest_path at line 179 or 189 is no node of
\* the graph
PlotterMissing(Gc, init, entry) ==
    \/ entry.zone_node \notin Gc.nodes
    \/ /\ Dist(Gc, init, entry.zone_node) < Infinity
       /\ \E k \in 1..Len(nodes_in_zones[entry.zone_idx + 1]) :
             /\ nodes_in_zones[entry.zone_idx + 1][k] # entry.zone_node
             /\ nodes_in_zones[entry.zone_idx + 1][k] \notin Gc.nodes

\* lines 175-217: one entry node with its whole loop over exit nodes
PlotterEntry ==
    /\ pc = "plot_loop"
    /\ entry_count < Len(PlotterEntries)
    /\ LET entry == PlotterEntries[entry_count + 1]
           init  == InitialSat(shortest_path)
       IN  /\ ~PlotterMissing(G_copy, init, entry)
           /\ LET start == [weight |-> best_total_weight, found |-> FALSE,
                            exit_node |-> entry.zone_node,
                            zone_nodes |-> nodes_in_zones[entry.zone_idx + 1]]
                  best  == IF Dist(G_copy, init, entry.zone_node) < Infinity
                           THEN ExitLoop(G_copy, shortest_weight, init,
                                         entry.zone_node, 1, start)
                           ELSE start
              IN  IF best.found
                  THEN /\ \E sat_to_zone \in MinPaths(G_copy, init, entry.zone_node),
                            in_zone_path \in MinPaths(G_copy, entry.zone_node, best.exit_node),
                            zone_to_dst \in MinPaths(G_copy, best.exit_node, target) :
                            best_total_path' =
                                <<source>> \o sat_to_zone \o Tail(in_zone_path)
                                    \o Tail(zone_to_dst)
                       /\ best_total_weight' = best.weight
                       /\ best_zone_idx' = entry.zone_idx
                  ELSE UNCHANGED <<best_total_path, best_total_weight, best_zone_idx>>
    /\ entry_count' = entry_count + 1
    /\ UNCHANGED <<G, pc, nodes_in_zones, error, G_copy, shortest_path,
                   shortest_weight, tried_directions, direction,
                   best_entry_path, best_exit_path, zone_path, zone_weight,
                   total_weight, needed_weight4, best_overall_path,
                   best_overall_weight, result, inserted, seed_path,
                   pathsVars, zoneVars>>

\* lines 179, 189: NodeNotFound leaves the function
PlotterEntryRaises ==
    /\ pc = "plot_loop"
    /\ entry_count < Len(PlotterEntries)
    /\ PlotterMissing(G_copy, InitialSat(shortest_path),
                      PlotterEntries[entry_count + 1])
    /\ error' = "NodeNotFound"
    /\ pc' = "raised"
    /\ UNCHANGED <<G, searchVars, pathsVars, zoneVars, plotterVars>>

\* lines 219-226
PlotterReturn ==
    /\ pc = "plot_loop"
    /\ entry_count = Len(PlotterEntries)
    /\ result' = IF best_total_path # <<>> THEN <<best_total_path>> ELSE <<>>
    /\ pc' = "done"
    /\ UNCHANGED <<G, nodes_in_zones, error, G_copy, shortest_path,
                   shortest_weight, tried_directions, direction,
                   best_entry_path, best_exit_path, best_zone_idx, zone_path,
                   zone_weight, total_weight, needed_weight4,
                   best_overall_path, best_overall_weight, inserted,
                   seed_path, pathsVars, zoneVars, plotterVars>>

\* run_routing.main has parsed the snapshot (line 20)
InitMain ==
    /\ snapshot \in MainGraphs \cup MainBroken
    /\ node_order \in {Ascending(snapshot.nodes), Reverse(Ascending(snapshot.nodes))}
    /\ spare_zones = SPARE_ZONES
    /\ G = snapshot
    /\ G_copy = G
    /\ G_temp = G
    /\ nodes_in_zones = <<>>
    /\ pc = "main"

\* the caller enters find_path_via_spare_zones(G, positions, nodes_in_zones)
InitSearch ==
    /\ \E in \in SearchInputs : G = in[1] /\ nodes_in_zones = in[2]
    /\ pc = "start"
    /\ G_copy = G
    /\ G_temp = G

\* the caller enters find_multiple_paths(G)
InitPaths ==
    /\ G \in PathInputs
    /\ nodes_in_zones = <<>>
    /\ pc = "paths"
    /\ G_copy = G
    /\ G_temp = G

Init ==
    /\ \/ (InitSearch \/ InitPaths)
          /\ snapshot = NoSnapshot /\ node_order = <<>> /\ spare_zones = <<>>
       \/ InitMain
    /\ error = "none"
    /\ shortest_path = <<>>
    /\ shortest_weight = 0
    /\ tried_directions = {}
    /\ direction = 0
    /\ best_entry_path = <<>>
    /\ best_exit_path = <<>>
    /\ best_zone_idx = -1
    /\ zone_path = <<>>
    /\ zone_weight = 0
    /\ total_weight = 0
    /\ needed_weight4 = 0
    /\ best_overall_path = <<>>
    /\ best_overall_weight = Infinity
    /\ result = <<>>
    /\ inserted = <<>>
    /\ seed_path = <<>>
    /\ paths = <<>>
    /\ lengths = <<>>
    /\ loop_i = 0
    /\ best_total_path = <<>>
    /\ best_total_weight = Infinity
    /\ entry_count = 0
    /\ node_positions = <<>>
    /\ prev_zones = <<>>
    /\ prev_members = <<>>

Next ==
    \/ Baseline
    \/ BaselineRaises
    \/ DirectionFails
    \/ DirectionRaises
    \/ DirectionSeeds
    \/ RefineInserts
    \/ RefineEnds
    \/ RefineRaises
    \/ Accept
    \/ Return
    \/ PathFound
    \/ PathsReturn
    \/ PathsRaises
    \/ MainPrepare
    \/ MainPrepareRaises
    \/ MainEnds
    \/ MainSearches

Spec == Init /\ [][Next]_vars

\* the caller computes positions and zone membership (run_routing.py 26-29)
ZoneInit ==
    /\ node_order = LocatorNodes
    /\ spare_zones \in ZoneLists
    /\ G = Graph(Range(LocatorNodes), <<>>)
    /\ G_copy = G
    /\ G_temp = G
    /\ nodes_in_zones = <<>>
    /\ node_positions = <<>>
    /\ prev_zones = <<>>
    /\ prev_members = <<>>
    /\ snapshot = NoSnapshot
    /\ pc = "positions"
    /\ error = "none"
    /\ shortest_path = <<>>
    /\ shortest_weight = 0
    /\ tried_directions = {}
    /\ direction = 0
    /\ best_entry_path = <<>>
    /\ best_exit_path = <<>>
    /\ best_zone_idx = -1
    /\ zone_path = <<>>
    /\ zone_weight = 0
    /\ total_weight = 0
    /\ needed_weight4 = 0
    /\ best_overall_path = <<>>
    /\ best_overall_weight = Infinity
    /\ result = <<>>
    /\ inserted = <<>>
    /\ seed_path = <<>>
    /\ paths = <<>>
    /\ lengths = <<>>
    /\ loop_i = 0
    /\ best_total_path = <<>>
    /\ best_total_weight = Infinity
    /\ entry_count = 0

ZoneNext == CalcPositions \/ Locate \/ LocateRaises \/ Reconfigure

ZoneSpec == ZoneInit /\ [][ZoneNext]_vars

\* the caller enters the plotter's find_path_via_spare_zones(G, positions,
\* nodes_in_zones)
PlotterInit ==
    /\ \E in \in SearchInputs : G = in[1] /\ nodes_in_zones = in[2]
    /\ pc = "plot_start"
    /\ G_copy = G
    /\ G_temp = G
    /\ snapshot = NoSnapshot /\ node_order = <<>> /\ spare_zones = <<>>
    /\ error = "none"
    /\ shortest_path = <<>>
    /\ shortest_weight = 0
    /\ tried_directions = {}
    /\ direction = 0
    /\ best_entry_path = <<>>
    /\ best_exit_path = <<>>
    /\ best_zone_idx = -1
    /\ zone_path = <<>>
    /\ zone_weight = 0
    /\ total_weight = 0
    /\ needed_weight4 = 0
    /\ best_overall_path = <<>>
    /\ best_overall_weight = Infinity
    /\ result = <<>>
    /\ inserted = <<>>
    /\ seed_path = <<>>
    /\ paths = <<>>
    /\ lengths = <<>>
    /\ loop_i = 0
    /\ node_positions = <<>>
    /\ prev_zones = <<>>
    /\ prev_members = <<>>
    /\ best_total_path = <<>>
    /\ best_total_weight = Infinity
    /\ entry_count = 0

PlotterNext ==
    \/ PlotterBaseline
    \/ PlotterNoPath
    \/ PlotterBaselineRaises
    \/ PlotterEntry
    \/ PlotterEntryRaises
    \/ PlotterReturn

PlotterSpec == PlotterInit /\ [][PlotterNext]_vars

\* Graphs for calculate_node_positions alone: one whole plane of satellites,
\* one more satellite anywhere in the planes 0..MaxPlane, and any of the
\* negative ids -1, -2, -3.
MaxPlane == 2

PlaneIds(plane) == (SATS_PER_PLANE * plane)..(SATS_PER_PLANE * plane + SATS_PER_PLANE - 1)

PositionInputs ==
    {PlaneIds(plane) \cup {extra} \cup ground :
        plane \in 0..MaxPlane,
        extra \in 0..(SATS_PER_PLANE * (MaxPlane + 1) - 1),
        ground \in SUBSET {-1, -2, -3}}

\* the caller enters calculate_node_positions(G)
PositionInit ==
    /\ \E nodes \in PositionInputs :
          /\ node_order = Ascending(nodes)
          /\ G = Graph(nodes, <<>>)
    /\ pc = "positions"
    /\ G_copy = G
    /\ G_temp = G
    /\ nodes_in_zones = <<>>
    /\ snapshot = NoSnapshot /\ spare_zones = <<>>
    /\ error = "none"
    /\ shortest_path = <<>>
    /\ shortest_weight = 0
    /\ tried_directions = {}
    /\ direction = 0
    /\ best_entry_path = <<>>
    /\ best_exit_path = <<>>
    /\ best_zone_idx = -1
    /\ zone_path = <<>>
    /\ zone_weight = 0
    /\ total_weight = 0
    /\ needed_weight4 = 0
    /\ best_overall_path = <<>>
    /\ best_overall_weight = Infinity
    /\ result = <<>>
    /\ inserted = <<>>
    /\ seed_path = <<>>
    /\ paths = <<>>
    /\ lengths = <<>>
    /\ loop_i = 0
    /\ node_positions = <<>>
    /\ prev_zones = <<>>
    /\ prev_members = <<>>
    /\ best_total_path = <<>>
    /\ best_total_weight = Infinity
    /\ entry_count = 0

\* calculate_node_positions(G) returns the positions dictionary
CalculatePositions ==
    /\ pc = "positions"
    /\ node_positions' = CalculateNodePositions(Range(node_order))
    /\ pc' = "positioned"
    /\ UNCHANGED <<G, error, searchVars, pathsVars, node_order, spare_zones,
                   prev_zones, prev_members, snapshot, plotterVars>>

PositionNext == CalculatePositions

PositionSpec == PositionInit /\ [][PositionNext]_vars

\* ------------------------------------------------------------------- claims

Returned == pc = "done" /\ result # <<>>

\* C1: a returned detour weighs, on the canonical graph, at least 1.25 times
\* the minimum source-target weight W0 (4 * weight >= 5 * W0).
C1_DetourMeetsTarget ==
    Returned => 4 * PathWeight(G, result[1]) >= 5 * Dist(G, source, target)

\* a detour returned after the seed candidate fell short and was refined
C1_Witness == Returned /\ inserted # <<>>

\* C2: every returned path is simple.
C2_ReturnedPathSimple == Returned => IsSimple(result[1])

\* the baseline edges other than the initial hop
BaselineInner(p) == PathEdges(p) \ {{p[1], p[2]}}

\* C3: a returned detour uses no baseline edge other than the initial hop,
\* and the entry, exit and in-zone paths lie in a working graph that has none
\* of those edges.
C3_AvoidsBaselineEdges ==
    /\ Returned => PathEdges(result[1]) \cap BaselineInner(shortest_path) = {}
    /\ pc \in {"refine", "accept"} =>
          /\ BaselineInner(shortest_path) \cap DOMAIN G_copy.length = {}
          /\ PathEdges(best_entry_path) \cup PathEdges(best_exit_path)
                \cup PathEdges(zone_path) \subseteq DOMAIN G_copy.length

\* a detour returned although the baseline has inner edges that would have
\* been shorter
C3_Witness ==
    /\ Returned
    /\ Len(shortest_path) >= 4
    /\ Range(result[1]) \cap Interior(shortest_path) # {}

\* C4: a returned detour starts with the source followed by the second node
\* of the minimum-weight path.
C4_KeepsInitialHop ==
    Returned =>
        /\ shortest_path \in MinPaths(G, source, target)
        /\ result[1][1] = source
        /\ result[1][2] = shortest_path[2]

\* the second node of the baseline is itself the zone entry node
C4_Witness == Returned /\ Len(best_entry_path) = 1 /\ Len(result[1]) > 3

\* C5: on the scenario of section 8 the search returns a detour from -1 to
\* -2 through node 0 that touches the zone and weighs at least 6.25.
C5_ScenarioDetour ==
    (pc = "done" /\ G = ScenarioGraph /\ nodes_in_zones = ScenarioZones) =>
        /\ shortest_weight = 5
        /\ result # <<>>
        /\ result[1][1] = source /\ result[1][Len(result[1])] = target
        /\ result[1][2] = 0
        /\ Range(result[1]) \cap {2, 3, 6, 7} # {}
        /\ 4 * PathWeight(G, result[1]) >= 25

\* the unused members of the chosen zone
Pool == Range(nodes_in_zones[best_zone_idx + 1]) \ Range(zone_path)

\* C9: every accepted insertion strictly increases the tracked total weight
\* and the true weight of the segment, and strictly decreases the needed
\* weight.
C9_InsertionIncreasesWeight ==
    [][(pc = "refine" /\ pc' = "refine") =>
          /\ total_weight' > total_weight
          /\ zone_weight' > zone_weight
          /\ needed_weight4' < needed_weight4
          /\ PathWeight(G, zone_path') > PathWeight(G, zone_path)]_vars

C9_Witness == pc = "refine" /\ inserted # <<>>

\* an iteration of the loop can be taken: the loop condition fails, a
\* trial raises, a best insertion exists, or none does
CanStep ==
    \/ needed_weight4 <= 0
    \/ RefineMissing
    \/ CanLose(TrialTable(G_copy, zone_path, RefineTrials))
    \/ \E t \in 1..Len(RefineTrials) :
          CanWin(TrialTable(G_copy, zone_path, RefineTrials), t)

\* C10: the refinement loop terminates.  Every insertion splices in a
\* member of the chosen zone that was not on the in-zone segment, so the
\* pool of unused members shrinks with each insertion and the insertions
\* never outnumber the zone's members; an iteration can always be taken; and
\* the loop falls through to line 196 only with the target met, the pool
\* empty, or no valid positive trial.
C10_RefinementTerminates ==
    pc \in {"refine", "accept"} =>
        /\ Len(inserted) <= Len(nodes_in_zones[best_zone_idx + 1])
        /\ IsSimple(inserted)
        /\ Range(inserted) \subseteq Range(nodes_in_zones[best_zone_idx + 1])
        /\ Range(inserted) \subseteq Range(zone_path) \ Range(seed_path)
        /\ Cardinality(Pool) + Len(inserted)
              <= Cardinality(Range(nodes_in_zones[best_zone_idx + 1]) \ Range(seed_path))
        /\ pc = "refine" => CanStep
        /\ pc = "accept" =>
              \/ MeetsTarget(total_weight, shortest_weight)
              \/ Pool = {}
              \/ CanLose(TrialTable(G_copy, zone_path, RefineTrials))

\* the loop ran an insertion and then ended short of the target
C10_Witness ==
    pc = "accept" /\ inserted # <<>> /\ ~MeetsTarget(total_weight, shortest_weight)

\* the corners of a zone that have a position
Corners(zone) == {zone[c] : c \in 1..4} \cap DOMAIN node_positions

\* the claim's membership test for node n and zone = (tl, tr, bl, br)
ClaimedMember(n, zone) ==
    /\ n >= 0
    /\ n \in DOMAIN node_positions
    /\ LET x == node_positions[n][1]
           y == node_positions[n][2]
           left == node_positions[zone[1]][1]
           right == node_positions[zone[2]][1]
           ys == {node_positions[c][2] : c \in Corners(zone)}
       IN  /\ \E lo \in ys : lo <= y
           /\ \E hi \in ys : y <= hi
           /\ IF left > right THEN x >= left \/ x <= right
                              ELSE left <= x /\ x <= right

\* C6: node n is a member of zone z exactly when n >= 0, n has a position,
\* its y lies between the least and greatest corner y, and its x passes the
\* (wrapped) x test; a zone with x-bounds (60, 5) holds every located node
\* of its band with x in 60..65 or 0..5 and none with x = 30; no ground
\* station is a member.
C6_ZoneMembership ==
    pc = "located" =>
        \A z \in 1..Len(spare_zones) :
            /\ \A k \in 1..Len(node_order) :
                  node_order[k] \in Range(nodes_in_zones[z])
                      <=> ClaimedMember(node_order[k], spare_zones[z])
            /\ \A n \in Range(nodes_in_zones[z]) : n >= 0
            /\ (/\ node_positions[spare_zones[z][1]][1] = 60
                /\ node_positions[spare_zones[z][2]][1] = 5) =>
                  \A n \in DOMAIN node_positions :
                      (n >= 0 /\ \E c \in {spare_zones[z][1], spare_zones[z][3]} :
                                    node_positions[c][2] = node_positions[n][2]) =>
                          /\ node_positions[n][1] \in (60..65) \cup (0..5)
                                => n \in Range(nodes_in_zones[z])
                          /\ node_positions[n][1] = 30
                                => n \notin Range(nodes_in_zones[z])

\* a wrapped zone with x-bounds (60, 5) over both planes has been located:
\* twelve members per plane
C6_Witness ==
    /\ pc = "located"
    /\ \E z \in 1..Len(spare_zones) :
          /\ spare_zones[z] = Rect(60, 5, 0, 1)
          /\ Len(nodes_in_zones[z]) = 24

\* C7: after the zone list is permuted, shortened or extended, every zone
\* that was in the list before has the member list it had before.
C7_OrderIndependent ==
    (pc = "located" /\ prev_zones # <<>>) =>
        \A k \in 1..Len(spare_zones), j \in 1..Len(prev_zones) :
            spare_zones[k] = prev_zones[j] => nodes_in_zones[k] = prev_members[j]

\* two overlapping zones with different members were swapped
C7_Witness ==
    /\ pc = "located"
    /\ Len(prev_zones) = 2 /\ Len(spare_zones) = 2
    /\ spare_zones = <<prev_zones[2], prev_zones[1]>>
    /\ nodes_in_zones[1] # nodes_in_zones[2]
    /\ Range(nodes_in_zones[1]) \cap Range(nodes_in_zones[2]) # {}

\* every simple path from the last node of p to t, extending p
RECURSIVE SimplePathsFrom(_, _, _)
SimplePathsFrom(H, p, t) ==
    IF p[Len(p)] = t THEN {p}
    ELSE UNION {SimplePathsFrom(H, Append(p, v), t) :
                  v \in Neighbors(H, p[Len(p)]) \ Range(p)}

SimplePaths(H, s, t) == SimplePathsFrom(H, <<s>>, t)

\* the sum of the edge weights of the consecutive pairs of p in H
EdgeSum(H, p) ==
    LET RECURSIVE Sum(_)
        Sum(k) == IF k = 0 THEN 0 ELSE H.length[{p[k], p[k + 1]}] + Sum(k - 1)
    IN  Sum(Len(p) - 1)

IsMinimal(H, p, w) ==
    /\ p \in SimplePaths(H, source, target)
    /\ \A q \in SimplePaths(H, source, target) : w <= EdgeSum(H, q)

\* C8: every reported length is the sum of the path's edge weights in the
\* input graph, and the first path of find_multiple_paths and the baseline
\* of the detour search have minimum weight among all source-target paths.
C8_LengthsAreEdgeSums ==
    /\ Len(lengths) = Len(paths)
    /\ \A k \in 1..Len(paths) : lengths[k] = EdgeSum(G, paths[k])
    /\ paths # <<>> => IsMinimal(G, paths[1], lengths[1])
    /\ shortest_path # <<>> =>
          /\ shortest_weight = EdgeSum(G, shortest_path)
          /\ IsMinimal(G, shortest_path, shortest_weight)

\* three paths were reported, the later ones on a graph that lost nodes
C8_Witness ==
    /\ pc = "paths_done"
    /\ Len(paths) = 3
    /\ G_temp # G
    /\ lengths[1] < lengths[3]

\* C11: no step of find_multiple_paths, find_path_via_spare_zones or
\* create_subgraph changes the graph it was given: main's snapshot never
\* changes, and the graph passed to the two searches changes at no step
\* after main has built it, whether the call returns or raises.
C11_CanonicalGraphUnchanged ==
    [][/\ snapshot' = snapshot
       /\ pc # "main" => G' = G]_vars

\* main ran to the end of the detour search; each callee has removed nodes
\* or edges from its working graph
C11_Witness ==
    /\ InMain /\ pc = "done"
    /\ G # snapshot /\ G_temp # G /\ G_copy # G

\* the position the fold rule gives satellite n when the fold is taken for
\* indexInPlane > threshold
FoldedPosition(n, threshold) ==
    LET indexInPlane == 66 - (n % 66)
    IN  <<IF indexInPlane > threshold THEN indexInPlane - 33
                                      ELSE indexInPlane + 33,
          -(n \div 66)>>

\* the satellites that have been given a position
Positioned == {n \in DOMAIN node_positions : n >= 0}

\* C12 as stated: the fold is taken for indexInPlane > 33.
C12_FoldAbove33 ==
    \A n \in Positioned : node_positions[n] = FoldedPosition(n, 33)

\* C12, amended: y = -(n div 66) and, for indexInPlane = 66 - (n mod 66),
\* x = indexInPlane - 33 if indexInPlane > 32 and x = indexInPlane + 33
\* otherwise, so that x ranges over 0..65.
C12_FoldAbove32 ==
    \A n \in Positioned :
        /\ node_positions[n] = FoldedPosition(n, 32)
        /\ node_positions[n][1] \in 0..65

\* positions were computed for satellite 33 (indexInPlane 33, x = 0) and
\* for satellites on both sides of the fold
C12_Witness ==
    /\ 33 \in Positioned /\ node_positions[33] = <<0, 0>>
    /\ 98 \in Positioned /\ node_positions[98] = <<1, -1>>
    /\ 34 \in Positioned /\ node_positions[34] = <<65, 0>>

\* some direction's refinement loop has ended and the candidate it left
\* (the last one built) weighs less than the target
EndedBelowTarget ==
    /\ zone_path # <<>>
    /\ ~MeetsTarget(total_weight, shortest_weight)

\* C13: when the refinement loop ended below the target, the search returns
\* a path (the best effort reached) rather than nothing.
C13_BestEffortReturned ==
    (pc = "done" /\ EndedBelowTarget) => result # <<>>

\* both endpoints are nodes of the graph handed to the searches and no path
\* joins them
Disconnected ==
    /\ source \in G.nodes /\ target \in G.nodes
    /\ \A p \in SimplePaths(G, source, target) : FALSE

\* C14: with source and target disconnected, find_path_via_spare_zones
\* raises before it tries a direction or a zone and returns nothing,
\* find_multiple_paths returns two empty lists and no error, and main ends
\* after the empty baseline result without calling the detour search.
C14_DisconnectedOutcomes ==
    (Disconnected /\ pc # "main") =>
        /\ pc \in {"start", "raised", "paths", "paths_done", "main_done"}
        /\ pc = "raised" =>
              /\ error = "NetworkXNoPath"
              /\ tried_directions = {} /\ direction = 0 /\ best_zone_idx = -1
              /\ result = <<>> /\ ~InMain
        /\ pc \in {"paths", "paths_done", "main_done"} =>
              paths = <<>> /\ lengths = <<>> /\ error = "none"
        /\ InMain => pc \in {"paths", "paths_done", "main_done"}

\* the detour search was called on a disconnected graph and has raised
C14_Witness ==
    /\ Disconnected
    /\ pc = "raised" /\ error = "NetworkXNoPath"
    /\ DOMAIN G.length # {}

\* C15: once the baseline has been found (source and target are connected)
\* the detour search never ends in an exception, whatever the zone
\* membership map holds.
C15_SearchNeverAborts ==
    shortest_path # <<>> => pc # "raised"

\* the detour search is past its baseline
Searching == shortest_path # <<>>

\* the order in which the directions are tried
DirectionOrder ==
    /\ tried_directions \in {{}, {1}, {1, -1}}
    /\ direction = (IF tried_directions = {} THEN 0
                    ELSE IF tried_directions = {1} THEN 1 ELSE -1)
    /\ direction = -1 => best_overall_path = <<>> \/ pc \in {"loop", "done"}
    /\ (pc = "done" /\ result # <<>>) => result = <<best_overall_path>>
    /\ (pc = "done" /\ result = <<>>) => tried_directions = {1, -1}

\* C16: direction +1 is tried first and direction -1 exactly when +1 left
\* no accepted detour; a detour found in direction +1 is returned with -1
\* untried; and a search in which no direction yields an accepted detour
\* returns an empty list, without an error.
C16_DirectionsInOrder ==
    Searching =>
        /\ DirectionOrder
        /\ (best_overall_path = <<>> /\ pc \in {"done", "raised"}) =>
              pc = "done" /\ result = <<>> /\ error = "none"

\* the candidate the entry loop of the current direction kept
EntryChoice ==
    LET cands == Candidates(nodes_in_zones, direction,
                            Plane(InitialSat(shortest_path)))
    IN  cands[BestCandidate(G_copy, InitialSat(shortest_path), cands)]

CandidateBuilt == pc \in {"refine", "accept"}

\* C17: in every candidate the nearest-entry/exit search builds, the exit
\* node is a member of the zone the entry node was taken from, and the nodes
\* offered to the refinement loop are the members of that same zone.
C17_ExitInEntryZone ==
    CandidateBuilt =>
        /\ Last(best_entry_path) = EntryChoice.zone_node
        /\ Last(best_exit_path) \in Range(nodes_in_zones[EntryChoice.zone_idx + 1])
        /\ best_zone_idx = EntryChoice.zone_idx

\* every member of every zone of the membership map
ZoneMembers == UNION {Range(nodes_in_zones[k]) : k \in 1..Len(nodes_in_zones)}

\* C18: a returned detour contains its entry node and its exit node, both
\* members of some zone of the membership map; when every member list is
\* empty the search returns the empty list.
C18_DetourTouchesZone ==
    /\ (pc = "done" /\ result # <<>>) =>
          /\ best_entry_path # <<>> /\ best_exit_path # <<>>
          /\ {Last(best_entry_path), Last(best_exit_path)} \subseteq ZoneMembers
          /\ {Last(best_entry_path), Last(best_exit_path)} \subseteq Range(result[1])
          /\ Range(result[1]) \cap ZoneMembers # {}
    /\ (Searching /\ ZoneMembers = {}) =>
          /\ pc # "raised"
          /\ best_overall_path = <<>>
          /\ pc = "done" => result = <<>>

C18_Witness ==
    /\ pc = "done" /\ result # <<>>
    /\ Last(best_entry_path) # Last(best_exit_path)
    /\ Len(nodes_in_zones) = 2
    /\ Range(result[1]) \cap ZoneMembers = {Last(best_entry_path), Last(best_exit_path)}

\* the trials of the first refinement iteration, rebuilt from the seed
SeedTrials ==
    Trials(AvailableNodes(nodes_in_zones, best_zone_idx, seed_path), seed_path)

SeedTable == TrialTable(G_copy, seed_path, SeedTrials)

\* trial u is valid whichever shortest paths are returned, with a positive increase
ValidPositive(tab, u) == ~tab[u].skip /\ tab[u].inc > 0

\* trial t, of increase inc, is not beaten by any valid trial: none is
\* cheaper and none of the same increase comes earlier in iteration order
FirstSmallest(tab, t, inc) ==
    \A u \in 1..Len(tab) :
        ValidPositive(tab, u) => inc < tab[u].inc \/ (inc = tab[u].inc /\ t <= u)

\* C19: the insertion a refinement iteration applies is a valid trial with
\* the smallest strictly positive weight increase, and of several trials
\* with that increase the first in iteration order (node, then position).
C19_SmallestFirst ==
    [][(pc = "refine" /\ inserted' # inserted) =>
          LET tab == TrialTable(G_copy, zone_path, RefineTrials)
              inc == zone_weight' - zone_weight
          IN  /\ inc > 0
              /\ \E t \in 1..Len(tab) :
                    /\ RefineTrials[t].node = Last(inserted')
                    /\ tab[t].inc = inc
                    /\ \E c \in tab[t].ok :
                          zone_path' = Splice(zone_path, RefineTrials[t].i, c[1], c[2])
                    /\ FirstSmallest(tab, t, inc)]_vars

\* a first insertion made where a later valid trial ties with the applied one
C19_Witness ==
    /\ Len(inserted) = 1
    /\ \E t \in 1..Len(SeedTrials) :
          /\ SeedTrials[t].node = inserted[1]
          /\ \E c \in SeedTable[t].ok :
                zone_path = Splice(seed_path, SeedTrials[t].i, c[1], c[2])
          /\ \E u \in (t + 1)..Len(SeedTrials) :
                /\ ValidPositive(SeedTable, u)
                /\ SeedTable[u].inc = SeedTable[t].inc

\* C20: after every refinement insertion the in-zone segment holds no node
\* twice: no applied trial has sub-paths sharing an intermediate node or
\* passing through a node already on the segment.
C20_SegmentStaysSimple == inserted # <<>> => IsSimple(zone_path)

\* the nodes of the detour under refinement: entry path, in-zone segment, exit path
DetourNodes ==
    Range(best_entry_path) \cup Range(zone_path) \cup Range(best_exit_path)

\* the nodes the refinement spliced in between the nodes of the seed segment
SplicedNodes == Range(zone_path) \ Range(seed_path)

\* C21: the trial graph of insertion position i holds no node of the current
\* detour (entry path, in-zone segment, exit path) except the two nodes
\* flanking i, so no sub-path of an applied trial passes through a node of
\* the entry path or of the exit path.
C21_TrialGraphExcludesDetour ==
    /\ (pc = "refine" /\ needed_weight4 > 0) =>
          \A i \in 1..(Len(zone_path) - 1) :
              TrialGraph(G_copy, zone_path, i).nodes \cap DetourNodes
                  \subseteq {zone_path[i], zone_path[i + 1]}
    /\ (pc \in {"refine", "accept"} /\ inserted # <<>>) =>
          SplicedNodes \cap (Range(best_entry_path) \cup Range(best_exit_path)) = {}

\* zone members in the plane of the initial hop that the working graph
\* connects to the initial hop
SamePlaneReachable ==
    {n \in ZoneMembers \cap G_copy.nodes :
        /\ Plane(n) = Plane(InitialSat(shortest_path))
        /\ Distances(G_copy, InitialSat(shortest_path))[n] < Infinity}

\* C22: in a candidate built in direction d the entry node's plane does not
\* lie against d from the initial hop's plane, nor the exit node's plane
\* from the entry node's; a zone node in the plane of the initial hop is
\* admissible in either direction, so a direction attempt ends without an
\* entry path only if no such node is reachable.
C22_PlanesFollowDirection ==
    /\ CandidateBuilt =>
          /\ direction \in {1, -1}
          /\ direction * (Plane(Last(best_entry_path))
                            - Plane(InitialSat(shortest_path))) >= 0
          /\ direction * (Plane(Last(best_exit_path))
                            - Plane(Last(best_entry_path))) >= 0
    /\ (pc = "loop" /\ direction # 0 /\ best_entry_path = <<>>) =>
          SamePlaneReachable = {}

C22_Witness ==
    /\ CandidateBuilt /\ direction = -1
    /\ Plane(Last(best_entry_path)) < Plane(InitialSat(shortest_path))
    /\ Plane(Last(best_exit_path)) = Plane(Last(best_entry_path))
    /\ Last(best_exit_path) # Last(best_entry_path)

\* an entry path of the current direction is held
EntryChosen ==
    /\ pc \in {"loop", "refine", "accept", "done"}
    /\ direction # 0 /\ best_entry_path # <<>>

\* the admissible members of all zones, in zone-index then member order
EntryPool ==
    Candidates(nodes_in_zones, direction, Plane(InitialSat(shortest_path)))

\* candidate k of the entry pool is the end of the entry path, no candidate
\* is nearer to the initial hop and no earlier candidate is as near
FirstNearest(k) ==
    LET d == Distances(G_copy, InitialSat(shortest_path))
        w == PathWeight(G_copy, best_entry_path)
    IN  /\ EntryPool[k].zone_node = Last(best_entry_path)
        /\ d[EntryPool[k].zone_node] = w
        /\ \A j \in 1..Len(EntryPool) :
              IF j < k THEN d[EntryPool[j].zone_node] > w
                       ELSE d[EntryPool[j].zone_node] >= w

\* C23: the entry path of a direction attempt is a minimum-weight path of
\* the working graph from the initial hop to an admissible zone node, of
\* least weight over all admissible members of all zones, the first such
\* member in zone-index then member order; its zone index is recorded
\* (and still held when no exit path is found).
C23_EntryNearestFirst ==
    EntryChosen =>
        /\ best_entry_path
              \in MinPaths(G_copy, InitialSat(shortest_path), Last(best_entry_path))
        /\ \E k \in 1..Len(EntryPool) :
              /\ FirstNearest(k)
              /\ (best_exit_path = <<>> /\ pc = "loop") =>
                    best_zone_idx = EntryPool[k].zone_idx

\* an entry chosen where a later candidate is exactly as near
C23_Witness ==
    /\ EntryChosen /\ CandidateBuilt
    /\ Len(best_entry_path) > 1
    /\ \E k \in 1..Len(EntryPool) :
          /\ FirstNearest(k)
          /\ \E j \in (k + 1)..Len(EntryPool) :
                Distances(G_copy, InitialSat(shortest_path))[EntryPool[j].zone_node]
                    = PathWeight(G_copy, best_entry_path)

\* the total weights of the candidates of the closest-to-target variant:
\* entry and exit node distinct members of one zone, all three legs present
CandidateTotals ==
    LET init == InitialSat(shortest_path)
    IN  {PlotterTotal(G_copy, init, pr[1], pr[2]) :
            pr \in {pr \in (ZoneMembers \cap G_copy.nodes) \X (ZoneMembers \cap G_copy.nodes) :
                      /\ pr[1] # pr[2]
                      /\ \E k \in 1..Len(nodes_in_zones) :
                            {pr[1], pr[2]} \subseteq Range(nodes_in_zones[k])
                      /\ Dist(G_copy, init, pr[1]) < Infinity
                      /\ Dist(G_copy, pr[1], pr[2]) < Infinity
                      /\ Dist(G_copy, pr[2], target) < Infinity}}

\* C24: the closest-to-target variant returns no path lighter than the
\* target weight of 1.25 times the shortest-path weight, and the returned
\* path is the lightest of the candidates that reach the target weight.
C24_ClosestAboveTarget ==
    (pc = "done" /\ result # <<>>) =>
        /\ 4 * best_total_weight >= 5 * shortest_weight
        /\ \A t \in CandidateTotals :
              4 * t >= 5 * shortest_weight => best_total_weight <= t

PathsReturned == pc \in {"paths_done", "main_done"} \/ (InMain /\ pc = "start")

\* C25: when the graph holds at least three distinct simple source-target
\* paths, find_multiple_paths returns three distinct paths and no simple
\* source-target path left out is lighter than a returned one.
C25_ThreeShortest ==
    (/\ PathsReturned
     /\ source \in G.nodes /\ target \in G.nodes
     /\ Cardinality(SimplePaths(G, source, target)) >= 3) =>
        /\ Len(paths) = 3
        /\ Cardinality(Range(paths)) = 3
        /\ \A q \in SimplePaths(G, source, target) \ Range(paths) :
              \A k \in 1..3 : lengths[k] <= EdgeSum(G, q)

\* the internal nodes of all paths returned so far
ReturnedInteriors == UNION {Interior(paths[k]) : k \in 1..Len(paths)}

\* C26: find_multiple_paths returns at most three paths, one length each;
\* no two returned paths share an internal node; the lengths do not
\* decrease; and fewer than three paths are returned only when source and
\* target are disconnected once the internal nodes of the returned paths
\* are removed.
C26_DisjointNonDecreasing ==
    /\ Len(paths) <= 3 /\ Len(lengths) = Len(paths)
    /\ \A j, k \in 1..Len(paths) :
          j < k => Interior(paths[j]) \cap Interior(paths[k]) = {}
    /\ \A k \in 1..(Len(paths) - 1) : lengths[k] <= lengths[k + 1]
    /\ (PathsReturned /\ Len(paths) < 3) =>
          /\ source \in G.nodes /\ target \in G.nodes
          /\ SimplePaths(RemoveNodes(G, ReturnedInteriors), source, target) = {}

C26_Witness ==
    /\ pc = "paths_done" /\ Len(paths) = 3
    /\ lengths[1] < lengths[2] /\ lengths[2] < lengths[3]
    /\ \A k \in 1..3 : Interior(paths[k]) # {}

\* the node before the last one
BeforeLast(p) == p[Len(p) - 1]

\* C27: the working graph holds no edge of the baseline path, the initial
\* hop and the last link into the target included; a returned detour
\* reaches the target over another link than the baseline's last; and when
\* the target has a single link in the graph no detour is found and the
\* result stays empty.
C27_BaselineEdgesExcluded ==
    Searching =>
        /\ \A k \in 1..(Len(shortest_path) - 1) :
              ~HasEdge(G_copy, shortest_path[k], shortest_path[k + 1])
        /\ (pc = "done" /\ result # <<>>) =>
              /\ Last(result[1]) = target
              /\ BeforeLast(result[1]) # BeforeLast(shortest_path)
        /\ Cardinality(Neighbors(G, target)) = 1 =>
              best_overall_path = <<>> /\ result = <<>>

C27_Witness ==
    /\ pc = "done" /\ result # <<>>
    /\ Len(shortest_path) > 3
    /\ HasEdge(G, BeforeLast(shortest_path), target)
    /\ BeforeLast(result[1]) # BeforeLast(shortest_path)

\* initial hop plus the canonical edge weights along the entry path, the
\* in-zone segment and the exit path
TrueWeight ==
    Length(G, source, InitialSat(shortest_path)) + EdgeSum(G, best_entry_path)
        + EdgeSum(G, zone_path) + EdgeSum(G, best_exit_path)

\* C28: during refinement and at acceptance the tracked total weight is the
\* initial hop plus the canonical edge weights along entry path, in-zone
\* segment and exit path, the needed weight is the target weight less that
\* total, and the weight recorded for a returned path is its true weight.
C28_TrackedWeightIsTrue ==
    /\ CandidateBuilt =>
          /\ total_weight = TrueWeight
          /\ zone_weight = EdgeSum(G, zone_path)
          /\ needed_weight4 = TargetWeight4(shortest_weight) - 4 * total_weight
    /\ (Searching /\ pc = "done" /\ result # <<>>) =>
          /\ best_overall_weight = EdgeSum(G, result[1])
          /\ MeetsTarget(best_overall_weight, shortest_weight)

C28_Witness ==
    /\ pc = "accept" /\ inserted # <<>>
    /\ Len(best_entry_path) > 1 /\ Len(best_exit_path) > 2
    /\ MeetsTarget(total_weight, shortest_weight)
    /\ total_weight = TrueWeight

\* consecutive nodes of p are linked in H
Linked(H, p) == \A k \in 1..(Len(p) - 1) : HasEdge(H, p[k], p[k + 1])

\* C29: a refinement step leaves the entry path, the exit path and both ends
\* of the in-zone segment as they are and inserts nothing into a segment of
\* one node; the segment runs from the entry node to the exit node over
\* links of the working graph; a returned sequence runs from the source to
\* the target over links of the canonical graph.
C29_OnlyInteriorRewritten ==
    [][/\ pc = "refine" =>
            /\ best_entry_path' = best_entry_path
            /\ best_exit_path' = best_exit_path
            /\ zone_path'[1] = zone_path[1]
            /\ Last(zone_path') = Last(zone_path)
            /\ Len(zone_path) = 1 => zone_path' = zone_path /\ inserted' = inserted
       /\ pc' \in {"refine", "accept"} =>
            /\ zone_path'[1] = Last(best_entry_path')
            /\ Last(zone_path') = Last(best_exit_path')
            /\ Linked(G_copy', zone_path')
       /\ (pc' = "done" /\ result' # <<>>) =>
            /\ result'[1][1] = source
            /\ Last(result'[1]) = target
            /\ Linked(G', result'[1])]_vars

C29_Witness ==
    /\ pc = "done" /\ result # <<>>
    /\ inserted # <<>> /\ Len(seed_path) > 1
    /\ zone_path # seed_path
    /\ zone_path[1] = seed_path[1] /\ Last(zone_path) = Last(seed_path)
    /\ Linked(G, result[1])

\* C30: every satellite id n >= 0 is placed at an integer x in 0..65 and
\* y = -(n div 66); distinct ids get distinct positions, the 66 ids of a
\* plane covering x = 0..65; of the negative ids only -1 and -2 get an
\* entry, the fixed ground-station coordinates.
C30_PositionsOneToOne ==
    pc = "positioned" =>
        /\ Positioned = {n \in Range(node_order) : n >= 0}
        /\ \A n \in Positioned :
              /\ node_positions[n][1] \in 0..65
              /\ node_positions[n][2] = -(n \div 66)
        /\ \A m, n \in Positioned :
              m # n => node_positions[m] # node_positions[n]
        /\ \A plane \in 0..MaxPlane :
              PlaneIds(plane) \subseteq Positioned =>
                  {node_positions[n][1] : n \in PlaneIds(plane)} = 0..65
        /\ DOMAIN node_positions \ Positioned = Range(node_order) \cap {-1, -2}
        /\ \A n \in DOMAIN node_positions \ Positioned :
              node_positions[n] = GroundPosition(n)

C30_Witness ==
    /\ pc = "positioned"
    /\ {-3, -1} \subseteq Range(node_order) /\ -2 \notin Range(node_order)
    /\ -3 \notin DOMAIN node_positions /\ -1 \in DOMAIN node_positions
    /\ PlaneIds(1) \cup {0} \subseteq Positioned
    /\ {node_positions[n][1] : n \in PlaneIds(1)} = 0..65
    /\ node_positions[0] = <<33, 0>>
    /\ node_positions[66 + 33] = <<0, -1>>
    /\ node_positions[66 + 34] = <<65, -1>>
====
